---------------------------- MODULE Spec2Model ----------------------------
(***************************************************************************)
(* RewardModelTrainer (applications/Chat/coati/trainer/rm.py).             *)
(*                                                                         *)
(* One process running RewardModelTrainer.fit(), or one direct call of     *)
(* RewardModelTrainer.eval_acc(dataloader).  The model, the optimizer, the *)
(* scheduler and the strategy are collaborators: their calls are counted   *)
(* and the order of the calls inside one training step is recorded.  A     *)
(* dataloader is the sequence of its batches; a batch of an evaluation     *)
(* dataloader is the sequence of the <<chosen reward, rejected reward>>    *)
(* pairs the reward model gives for its examples.  Rewards are exact       *)
(* rationals <<numerator, denominator>>; floating-point rounding is not    *)
(* modelled.                                                               *)
(***************************************************************************)
EXTENDS Integers, Sequences, FiniteSets

VARIABLES
    pc,               \* position of the process in fit() / eval_acc()
    err,              \* the exception that ended the run, "" when none
    max_epochs,       \* self.max_epochs
    trainLen,         \* len(self.train_dataloader)
    valid_dataloader, \* self.valid_dataloader
    eval_dataloader,  \* self.eval_dataloader
    rank,             \* rank of this process in the distributed run
    mode,             \* self.model.training: "train" or "eval"
    epoch,            \* fit: epoch
    batchIdx,         \* fit: batches of this epoch whose loop body has completed
    cnt,              \* fit: cnt
    dist,             \* fit: dist
    acc,              \* fit: acc
    loss,             \* fit: loss (unbound until the first batch)
    stepBarN,         \* fit: step_bar.n
    caller,           \* who called eval_acc: "direct", "mid" or "end"
    evalDl,           \* eval_acc: dataloader
    entryMode,        \* the model's mode when eval_acc was called
    eIdx,             \* eval_acc: batches consumed by the for loop
    eDist,            \* eval_acc: dist
    eOn,              \* eval_acc: on
    eCnt,             \* eval_acc: cnt
    eDistMean,        \* eval_acc: dist_mean
    eAcc,             \* eval_acc: acc
    backwardCalls,    \* calls of strategy.backward
    optSteps,         \* calls of strategy.optimizer_step
    zeroGrads,        \* calls of optimizer.zero_grad
    schedSteps,       \* calls of scheduler.step
    midEvals,         \* calls of eval_acc(self.valid_dataloader)
    endEvals,         \* calls of eval_acc(self.eval_dataloader)
    endEvalReturns,   \* returns of eval_acc(self.eval_dataloader)
    evalAtOpt,        \* optSteps when the last eval_acc started
    calls,            \* collaborator calls since the current batch was drawn
    logTs,            \* rows appended to log_<time>.csv
    logCsv            \* rows appended to log.csv

vars == <<pc, err, max_epochs, trainLen, valid_dataloader, eval_dataloader,
          rank, mode, epoch, batchIdx, cnt, dist, acc, loss, stepBarN,
          caller, evalDl, entryMode, eIdx, eDist, eOn, eCnt, eDistMean, eAcc,
          backwardCalls, optSteps, zeroGrads, schedSteps, midEvals, endEvals,
          endEvalReturns, evalAtOpt, calls, logTs, logCsv>>

fitVars == <<max_epochs, trainLen, valid_dataloader, eval_dataloader, rank,
             epoch, batchIdx, cnt, dist, acc, loss, stepBarN>>

evalVars == <<evalDl, entryMode, eIdx, eDist, eOn, eCnt, eDistMean, eAcc>>

counterVars == <<backwardCalls, optSteps, zeroGrads, schedSteps, midEvals,
                 endEvals, endEvalReturns, evalAtOpt>>

logVars == <<logTs, logCsv>>

---------------------------------------------------------------------------
(* Bounds of the model. *)

\* Most examples (over all batches) of an evaluation dataloader.
MaxExamples == 4

\* Longest training dataloader.
MaxTrainLen == 200

\* Largest max_epochs.
MaxEpochs == 2

\* Largest rank of a process (world size - 1).
MaxRank == 1

\* The period of the mid-epoch evaluation: "if cnt == 100".
Interval == 100

---------------------------------------------------------------------------
(* Exact rationals. *)

Abs(x) == IF x < 0 THEN -x ELSE x

RECURSIVE Gcd(_, _)
Gcd(a, b) == IF b = 0 THEN a ELSE Gcd(b, a % b)

\* n/d in lowest terms, d > 0.
Rat(n, d) ==
    LET g == Gcd(Abs(n), d)
    IN  <<n \div g, d \div g>>

RatAdd(x, y) == Rat(x[1] * y[2] + y[1] * x[2], x[2] * y[2])

RatDivInt(x, k) == Rat(x[1], x[2] * k)

Zero == Rat(0, 1)

---------------------------------------------------------------------------
(* Inputs. *)

Modes == {"train", "eval"}

\* <<chosen reward, rejected reward>> of one example: chosen ahead by one,
\* ahead by two, a tie, rejected ahead.
RewardPairs == {<<2, 1>>, <<3, 1>>, <<1, 1>>, <<1, 2>>}

\* The batches of k examples.  A DataLoader never yields an empty batch.
BatchesOf(k) == [1..k -> RewardPairs]

\* The dataloaders of at most n examples in all.
RECURSIVE LoadersUpTo(_)
LoadersUpTo(n) ==
    {<<>>} \cup
    UNION { { <<b>> \o rest : b \in BatchesOf(k), rest \in LoadersUpTo(n - k) }
            : k \in 1..n }

Dataloaders == LoadersUpTo(MaxExamples)

\* The dataloader of the documented scenario: chosen [2,2],[3,1] against
\* rejected [1,1],[1,1].
ScenarioLoader == << <<(<<2, 1>>), (<<2, 1>>)>>, <<(<<3, 1>>), (<<1, 1>>)>> >>

\* The validation / evaluation dataloaders fit() is run with.
FitLoaders == {<<>>, ScenarioLoader, << <<(<<1, 2>>)>>, <<(<<2, 1>>), (<<1, 1>>)>> >>}

\* The training dataloader lengths fit() is run with: the multiples of
\* Interval, the lengths next to them and the lengths halfway between them.
TrainLens ==
    {n \in 0..MaxTrainLen :
        n % Interval \in {0, 1, Interval \div 2, Interval - 1}}

\* loss_fn is a stub that gives every training batch of a run its own loss:
\* the loss of the k-th batch (k >= 1) of epoch e.
LossFn(e, k) == e * (MaxTrainLen + 2) + k

Unbound == [bound |-> FALSE, val |-> 0]

IsRank0 == rank = 0

---------------------------------------------------------------------------
(* eval_acc *)

\* The comparison that also counts a tie.
ExceedsOrEquals(c, r) == c >= r

\* chosen_reward[i] > reject_reward[i]
Exceeds(c, r) == c > r

\* The inner loop over the examples of a batch: how many times "on += 1" runs.
RECURSIVE OnCount(_, _)
OnCount(batch, i) ==
    IF i > Len(batch) THEN 0
    ELSE (IF Exceeds(batch[i][1], batch[i][2]) THEN 1 ELSE 0) + OnCount(batch, i + 1)

RECURSIVE GapSum(_, _)
GapSum(batch, i) ==
    IF i > Len(batch) THEN 0
    ELSE (batch[i][1] - batch[i][2]) + GapSum(batch, i + 1)

\* (chosen_reward - reject_reward).mean().item()
BatchMeanGap(batch) == Rat(GapSum(batch, 1), Len(batch))

\* dist_mean = dist / len(dataloader)
DistMean(d, nBatches) == RatDivInt(d, nBatches)

\* acc = on / cnt
Accuracy(on, n) == Rat(on, n)

\* eval_acc up to self.model.eval().
EvalEnter ==
    /\ pc = "eval_enter"
    /\ eDist' = Zero
    /\ eOn' = 0
    /\ eCnt' = 0
    /\ eIdx' = 0
    /\ entryMode' = mode
    /\ mode' = "eval"
    /\ evalAtOpt' = optSteps
    /\ pc' = "eval_loop"
    /\ UNCHANGED <<err, fitVars, caller, evalDl, eDistMean, eAcc, calls, logVars,
                   backwardCalls, optSteps, zeroGrads, schedSteps, midEvals,
                   endEvals, endEvalReturns>>

\* One iteration of "for ... in dataloader".
EvalBatch ==
    /\ pc = "eval_loop"
    /\ eIdx < Len(evalDl)
    /\ LET batch == evalDl[eIdx + 1]
       IN  /\ eCnt' = eCnt + Len(batch)
           /\ eOn' = eOn + OnCount(batch, 1)
           /\ eDist' = RatAdd(eDist, BatchMeanGap(batch))
    /\ eIdx' = eIdx + 1
    /\ UNCHANGED <<pc, err, fitVars, mode, caller, evalDl, entryMode, eDistMean,
                   eAcc, counterVars, calls, logVars>>

\* The dataloader is exhausted.
EvalLoopExit ==
    /\ pc = "eval_loop"
    /\ eIdx = Len(evalDl)
    /\ pc' = "eval_final"
    /\ UNCHANGED <<err, fitVars, mode, caller, evalVars, counterVars, calls, logVars>>

\* dist divided by the number of examples instead of the number of batches.
EvalFinalizeByExamples ==
    /\ pc = "eval_final"
    /\ Len(evalDl) # 0
    /\ eCnt # 0
    /\ eDistMean' = DistMean(eDist, eCnt)
    /\ eAcc' = Accuracy(eOn, eCnt)
    /\ pc' = "eval_restore"
    /\ UNCHANGED <<err, fitVars, mode, caller, evalDl, entryMode, eIdx, eDist, eOn,
                   eCnt, counterVars, calls, logVars>>

\* dist_mean = dist / len(dataloader); acc = on / cnt
EvalFinalize ==
    /\ pc = "eval_final"
    /\ Len(evalDl) # 0
    /\ eCnt # 0
    /\ eDistMean' = DistMean(eDist, Len(evalDl))
    /\ eAcc' = Accuracy(eOn, eCnt)
    /\ pc' = "eval_restore"
    /\ UNCHANGED <<err, fitVars, mode, caller, evalDl, entryMode, eIdx, eDist, eOn,
                   eCnt, counterVars, calls, logVars>>

\* A guarded division: zero metrics for a dataloader without batches.
EvalEmptyGivesZero ==
    /\ pc = "eval_final"
    /\ (Len(evalDl) = 0 \/ eCnt = 0)
    /\ eDistMean' = Zero
    /\ eAcc' = Zero
    /\ pc' = "eval_restore"
    /\ UNCHANGED <<err, fitVars, mode, caller, evalDl, entryMode, eIdx, eDist, eOn,
                   eCnt, counterVars, calls, logVars>>

\* The failure with the mode restored on the way out (try/finally).
EvalDivZeroRestores ==
    /\ pc = "eval_final"
    /\ (Len(evalDl) = 0 \/ eCnt = 0)
    /\ mode' = "train"
    /\ pc' = "error"
    /\ err' = "ZeroDivisionError"
    /\ UNCHANGED <<fitVars, caller, evalVars, counterVars, calls, logVars>>

\* The same two divisions with a zero divisor: ZeroDivisionError, which
\* nothing catches.
EvalDivZero ==
    /\ pc = "eval_final"
    /\ (Len(evalDl) = 0 \/ eCnt = 0)
    /\ pc' = "error"
    /\ err' = "ZeroDivisionError"
    /\ UNCHANGED <<fitVars, mode, caller, evalVars, counterVars, calls, logVars>>

\* Where eval_acc returns to.
ReturnSite(c) ==
    CASE c = "mid" -> "mid_ret"
      [] c = "end" -> "end_ret"
      [] OTHER -> "returned"

\* eval_acc restoring the mode it found instead of setting training mode.
EvalRestoreEntryMode ==
    /\ pc = "eval_restore"
    /\ mode' = entryMode
    /\ pc' = ReturnSite(caller)
    /\ endEvalReturns' = IF caller = "end" THEN endEvalReturns + 1 ELSE endEvalReturns
    /\ UNCHANGED <<err, fitVars, caller, evalVars, calls, logVars, backwardCalls,
                   optSteps, zeroGrads, schedSteps, midEvals, endEvals, evalAtOpt>>

\* eval_acc returning without self.model.train().
EvalRestoreSkipped ==
    /\ pc = "eval_restore"
    /\ pc' = ReturnSite(caller)
    /\ endEvalReturns' = IF caller = "end" THEN endEvalReturns + 1 ELSE endEvalReturns
    /\ UNCHANGED <<err, fitVars, mode, caller, evalVars, calls, logVars, backwardCalls,
                   optSteps, zeroGrads, schedSteps, midEvals, endEvals, evalAtOpt>>

\* self.model.train(); return dist_mean, acc
EvalRestore ==
    /\ pc = "eval_restore"
    /\ mode' = "train"
    /\ pc' = ReturnSite(caller)
    /\ endEvalReturns' = IF caller = "end" THEN endEvalReturns + 1 ELSE endEvalReturns
    /\ UNCHANGED <<err, fitVars, caller, evalVars, calls, logVars, backwardCalls,
                   optSteps, zeroGrads, schedSteps, midEvals, endEvals, evalAtOpt>>

---------------------------------------------------------------------------
(* A direct call of eval_acc(dataloader). *)

InitCommon ==
    /\ err = ""
    /\ epoch = 0
    /\ batchIdx = 0
    /\ cnt = 0
    /\ dist = Zero
    /\ acc = Zero
    /\ loss = Unbound
    /\ stepBarN = 0
    /\ entryMode = mode
    /\ eIdx = 0
    /\ eDist = Zero
    /\ eOn = 0
    /\ eCnt = 0
    /\ eDistMean = Zero
    /\ eAcc = Zero
    /\ backwardCalls = 0
    /\ optSteps = 0
    /\ zeroGrads = 0
    /\ schedSteps = 0
    /\ midEvals = 0
    /\ endEvals = 0
    /\ endEvalReturns = 0
    /\ evalAtOpt = 0
    /\ calls = <<>>
    /\ logTs = <<>>
    /\ logCsv = <<>>

InitEval ==
    /\ pc = "eval_enter"
    /\ caller = "direct"
    /\ evalDl \in Dataloaders
    /\ mode \in Modes
    /\ max_epochs = 0
    /\ trainLen = 0
    /\ valid_dataloader = <<>>
    /\ eval_dataloader = <<>>
    /\ rank = 0
    /\ InitCommon

NextEval ==
    \/ EvalEnter
    \/ EvalBatch
    \/ EvalLoopExit
    \/ EvalFinalize
    \/ EvalDivZero
    \/ EvalRestore

SpecEval == InitEval /\ [][NextEval]_vars

---------------------------------------------------------------------------
(* fit *)

\* A row whose loss column is the mean of the epoch's losses so far (the
\* losses of an epoch are consecutive numbers) instead of the last loss.
LogRowMeanLoss ==
    [step     |-> stepBarN,
     loss     |-> (LossFn(epoch, 1) + loss.val) \div 2,
     dist     |-> dist,
     acc      |-> acc,
     writer   |-> rank,
     epoch    |-> epoch,
     evalAt   |-> evalAtOpt,
     appendAt |-> optSteps]

\* One row of a CSV log: the columns step, loss, dist, acc.  The other
\* fields are not written to the file: they record the writing process, the
\* epoch, and the number of optimizer steps taken when the row's metrics
\* were evaluated and when the row was appended.
LogRow ==
    [step     |-> stepBarN,
     loss     |-> loss.val,
     dist     |-> dist,
     acc      |-> acc,
     writer   |-> rank,
     epoch    |-> epoch,
     evalAt   |-> evalAtOpt,
     appendAt |-> optSteps]

\* time = datetime.now(); epoch_bar = tqdm(...)
FitBegin ==
    /\ pc = "fit"
    /\ pc' = "epoch_head"
    /\ epoch' = 0
    /\ UNCHANGED <<err, max_epochs, trainLen, valid_dataloader, eval_dataloader,
                   rank, mode, batchIdx, cnt, dist, acc, loss, stepBarN, caller,
                   evalVars, counterVars, calls, logVars>>

\* The epoch started without "cnt = 0": the counter runs on across epochs.
EpochBeginKeepsCnt ==
    /\ pc = "epoch_head"
    /\ epoch < max_epochs
    /\ stepBarN' = 0
    /\ mode' = "train"
    /\ acc' = Zero
    /\ dist' = Zero
    /\ batchIdx' = 0
    /\ calls' = <<>>
    /\ pc' = "train_loop"
    /\ UNCHANGED <<err, max_epochs, trainLen, valid_dataloader, eval_dataloader,
                   rank, epoch, cnt, loss, caller, evalVars, counterVars, logVars>>

\* for epoch in range(self.max_epochs): step_bar = tqdm(...);
\* self.model.train(); cnt = 0; acc = 0; dist = 0
EpochBegin ==
    /\ pc = "epoch_head"
    /\ epoch < max_epochs
    /\ stepBarN' = 0
    /\ mode' = "train"
    /\ cnt' = 0
    /\ acc' = Zero
    /\ dist' = Zero
    /\ batchIdx' = 0
    /\ calls' = <<>>
    /\ pc' = "train_loop"
    /\ UNCHANGED <<err, max_epochs, trainLen, valid_dataloader, eval_dataloader,
                   rank, epoch, loss, caller, evalVars, counterVars, logVars>>

\* range(self.max_epochs) is exhausted: fit returns.
FitReturn ==
    /\ pc = "epoch_head"
    /\ epoch = max_epochs
    /\ pc' = "done"
    /\ UNCHANGED <<err, fitVars, mode, caller, evalVars, counterVars, calls, logVars>>

\* The next training batch: the two forward passes and
\* loss = self.loss_fn(chosen_reward, reject_reward)
Forward ==
    /\ pc = "train_loop"
    /\ batchIdx < trainLen
    /\ loss' = [bound |-> TRUE, val |-> LossFn(epoch, batchIdx + 1)]
    /\ calls' = <<>>
    /\ pc' = "backward"
    /\ UNCHANGED <<err, max_epochs, trainLen, valid_dataloader, eval_dataloader,
                   rank, mode, epoch, batchIdx, cnt, dist, acc, stepBarN, caller,
                   evalVars, counterVars, logVars>>

\* loss.backward() called directly instead of through the strategy.
BackwardRaw ==
    /\ pc = "backward"
    /\ pc' = "optimizer_step"
    /\ UNCHANGED <<err, fitVars, mode, caller, evalVars, counterVars, calls, logVars>>

\* self.strategy.backward(loss, self.model, self.optimizer)
Backward ==
    /\ pc = "backward"
    /\ backwardCalls' = backwardCalls + 1
    /\ calls' = Append(calls, "backward")
    /\ pc' = "optimizer_step"
    /\ UNCHANGED <<err, fitVars, mode, caller, evalVars, optSteps, zeroGrads,
                   schedSteps, midEvals, endEvals, endEvalReturns, evalAtOpt, logVars>>

\* The training step without its optimizer step.
OptimizerStepMissing ==
    /\ pc = "optimizer_step"
    /\ pc' = "zero_grad"
    /\ UNCHANGED <<err, fitVars, mode, caller, evalVars, counterVars, calls, logVars>>

\* self.strategy.optimizer_step(self.optimizer)
OptimizerStep ==
    /\ pc = "optimizer_step"
    /\ optSteps' = optSteps + 1
    /\ calls' = Append(calls, "optimizer_step")
    /\ pc' = "zero_grad"
    /\ UNCHANGED <<err, fitVars, mode, caller, evalVars, backwardCalls, zeroGrads,
                   schedSteps, midEvals, endEvals, endEvalReturns, evalAtOpt, logVars>>

\* self.optimizer.zero_grad()
ZeroGrad ==
    /\ pc = "zero_grad"
    /\ zeroGrads' = zeroGrads + 1
    /\ calls' = Append(calls, "zero_grad")
    /\ pc' = "count"
    /\ UNCHANGED <<err, fitVars, mode, caller, evalVars, backwardCalls, optSteps,
                   schedSteps, midEvals, endEvals, endEvalReturns, evalAtOpt, logVars>>

\* cnt += 1; if cnt == 100:
Count ==
    /\ pc = "count"
    /\ cnt' = cnt + 1
    /\ pc' = IF cnt + 1 = Interval THEN "scheduler_step" ELSE "bar_update"
    /\ UNCHANGED <<err, max_epochs, trainLen, valid_dataloader, eval_dataloader,
                   rank, mode, epoch, batchIdx, dist, acc, loss, stepBarN, caller,
                   evalVars, counterVars, calls, logVars>>

\* self.scheduler.step()
SchedulerStep ==
    /\ pc = "scheduler_step"
    /\ schedSteps' = schedSteps + 1
    /\ calls' = Append(calls, "scheduler_step")
    /\ pc' = "mid_eval"
    /\ UNCHANGED <<err, fitVars, mode, caller, evalVars, backwardCalls, optSteps,
                   zeroGrads, midEvals, endEvals, endEvalReturns, evalAtOpt, logVars>>

\* The call in "dist, acc = self.eval_acc(self.valid_dataloader)".
CallEvalValid ==
    /\ pc = "mid_eval"
    /\ caller' = "mid"
    /\ evalDl' = valid_dataloader
    /\ midEvals' = midEvals + 1
    /\ calls' = Append(calls, "eval_acc")
    /\ pc' = "eval_enter"
    /\ UNCHANGED <<err, fitVars, mode, entryMode, eIdx, eDist, eOn, eCnt, eDistMean,
                   eAcc, backwardCalls, optSteps, zeroGrads, schedSteps, endEvals,
                   endEvalReturns, evalAtOpt, logVars>>

\* dist, acc = <the pair eval_acc returned>; cnt = 0
MidAssign ==
    /\ pc = "mid_ret"
    /\ dist' = eDistMean
    /\ acc' = eAcc
    /\ cnt' = 0
    /\ pc' = "mid_log"
    /\ UNCHANGED <<err, max_epochs, trainLen, valid_dataloader, eval_dataloader,
                   rank, mode, epoch, batchIdx, loss, stepBarN, caller, evalVars,
                   counterVars, calls, logVars>>

\* The mid-epoch append without its is_rank_0() guard.
MidLogAnyRank ==
    /\ pc = "mid_log"
    /\ logTs' = Append(logTs, LogRow)
    /\ calls' = Append(calls, "log_append")
    /\ pc' = "bar_update"
    /\ UNCHANGED <<err, fitVars, mode, caller, evalVars, counterVars, logCsv>>

\* if is_rank_0(): log = pd.DataFrame([[step_bar.n, loss.item(), dist, acc]]);
\* log.to_csv('log_%s.csv' % time, mode='a')
MidLog ==
    /\ pc = "mid_log"
    /\ logTs' = IF IsRank0 THEN Append(logTs, LogRow) ELSE logTs
    /\ calls' = IF IsRank0 THEN Append(calls, "log_append") ELSE calls
    /\ pc' = "bar_update"
    /\ UNCHANGED <<err, fitVars, mode, caller, evalVars, counterVars, logCsv>>

\* The progress bar advanced by the number of the batch instead of by one.
BarUpdateByBatchNumber ==
    /\ pc = "bar_update"
    /\ stepBarN' = IF IsRank0 THEN stepBarN + batchIdx + 1 ELSE stepBarN
    /\ batchIdx' = batchIdx + 1
    /\ pc' = "train_loop"
    /\ UNCHANGED <<err, max_epochs, trainLen, valid_dataloader, eval_dataloader,
                   rank, mode, epoch, cnt, dist, acc, loss, caller, evalVars,
                   counterVars, calls, logVars>>

\* step_bar.update(); step_bar.set_postfix(...): a disabled bar (not rank 0)
\* does not count.
BarUpdate ==
    /\ pc = "bar_update"
    /\ stepBarN' = IF IsRank0 THEN stepBarN + 1 ELSE stepBarN
    /\ batchIdx' = batchIdx + 1
    /\ pc' = "train_loop"
    /\ UNCHANGED <<err, max_epochs, trainLen, valid_dataloader, eval_dataloader,
                   rank, mode, epoch, cnt, dist, acc, loss, caller, evalVars,
                   counterVars, calls, logVars>>

\* The training dataloader is exhausted: the call in
\* "dist, acc = self.eval_acc(self.eval_dataloader)".
CallEvalEnd ==
    /\ pc = "train_loop"
    /\ batchIdx = trainLen
    /\ caller' = "end"
    /\ evalDl' = eval_dataloader
    /\ endEvals' = endEvals + 1
    /\ calls' = <<"eval_acc">>
    /\ pc' = "eval_enter"
    /\ UNCHANGED <<err, fitVars, mode, entryMode, eIdx, eDist, eOn, eCnt, eDistMean,
                   eAcc, backwardCalls, optSteps, zeroGrads, schedSteps, midEvals,
                   endEvalReturns, evalAtOpt, logVars>>

\* dist, acc = <the pair eval_acc returned>
EndAssign ==
    /\ pc = "end_ret"
    /\ dist' = eDistMean
    /\ acc' = eAcc
    /\ pc' = "end_log"
    /\ UNCHANGED <<err, max_epochs, trainLen, valid_dataloader, eval_dataloader,
                   rank, mode, epoch, batchIdx, cnt, loss, stepBarN, caller, evalVars,
                   counterVars, calls, logVars>>

\* if is_rank_0(): log = pd.DataFrame([[step_bar.n, loss.item(), dist, acc]]);
\* log.to_csv('log.csv', mode='a')
EndLog ==
    /\ pc = "end_log"
    /\ IsRank0 => loss.bound
    /\ logCsv' = IF IsRank0 THEN Append(logCsv, LogRow) ELSE logCsv
    /\ calls' = IF IsRank0 THEN Append(calls, "log_append") ELSE calls
    /\ pc' = "epoch_end"
    /\ UNCHANGED <<err, fitVars, mode, caller, evalVars, counterVars, logTs>>

\* The same statement when no training batch ever assigned loss:
\* loss.item() raises UnboundLocalError, which nothing catches.
EndLogUnbound ==
    /\ pc = "end_log"
    /\ IsRank0
    /\ ~loss.bound
    /\ pc' = "error"
    /\ err' = "UnboundLocalError"
    /\ UNCHANGED <<fitVars, mode, caller, evalVars, counterVars, calls, logVars>>

\* The epoch counted twice at its end.
EpochEndCountsTwice ==
    /\ pc = "epoch_end"
    /\ epoch' = epoch + 2
    /\ pc' = "epoch_head"
    /\ UNCHANGED <<err, max_epochs, trainLen, valid_dataloader, eval_dataloader,
                   rank, mode, batchIdx, cnt, dist, acc, loss, stepBarN, caller,
                   evalVars, counterVars, calls, logVars>>

\* epoch_bar.update(); step_bar.set_postfix(...); step_bar.close()
EpochEnd ==
    /\ pc = "epoch_end"
    /\ epoch' = epoch + 1
    /\ pc' = "epoch_head"
    /\ UNCHANGED <<err, max_epochs, trainLen, valid_dataloader, eval_dataloader,
                   rank, mode, batchIdx, cnt, dist, acc, loss, stepBarN, caller,
                   evalVars, counterVars, calls, logVars>>

Init ==
    /\ pc = "fit"
    /\ caller = "none"
    /\ evalDl = <<>>
    /\ mode \in Modes
    /\ max_epochs \in 0..MaxEpochs
    /\ trainLen \in TrainLens
    /\ valid_dataloader \in FitLoaders
    /\ eval_dataloader \in FitLoaders
    /\ rank \in 0..MaxRank
    /\ InitCommon

Next ==
    \/ FitBegin
    \/ EpochBegin
    \/ FitReturn
    \/ Forward
    \/ Backward
    \/ OptimizerStep
    \/ ZeroGrad
    \/ Count
    \/ SchedulerStep
    \/ CallEvalValid
    \/ MidAssign
    \/ MidLog
    \/ BarUpdate
    \/ CallEvalEnd
    \/ EndAssign
    \/ EndLog
    \/ EndLogUnbound
    \/ EpochEnd
    \/ EvalEnter
    \/ EvalBatch
    \/ EvalLoopExit
    \/ EvalFinalize
    \/ EvalDivZero
    \/ EvalRestore

Spec == Init /\ [][Next]_vars

\* fit() as the process runs it: single-threaded and never suspended, so a
\* statement that can run does run.
FairSpec == Init /\ [][Next]_vars /\ WF_vars(Next)

---------------------------------------------------------------------------
(* Properties of eval_acc, checked for direct calls (SpecEval). *)

\* eval_acc has returned to its caller.
EvalReturned == pc \in {"returned", "mid_ret", "end_ret"}

\* C1: whenever eval_acc returns normally the model is in training mode,
\* whatever mode it was in when eval_acc was called.
C1_TrainModeOnReturn == EvalReturned => mode = "train"

\* eval_acc was entered in evaluation mode and has returned.
C1_Witness == pc = "returned" /\ entryMode = "eval" /\ Len(evalDl) > 0

\* C2 as stated: after eval_acc the model's mode equals the mode it had
\* immediately before the call.
C2_ModeAsBeforeCall == EvalReturned => mode = entryMode

\* C2 amended: after eval_acc returns, the mode equals the mode before the
\* call exactly when that mode was training; entered in evaluation mode, the
\* model is left in training mode.
C2_ModeAsBeforeIffTraining ==
    EvalReturned =>
        /\ (mode = entryMode) <=> (entryMode = "train")
        /\ entryMode = "eval" => mode # entryMode

\* eval_acc was entered in training mode and has returned in it.
C2_Witness == pc = "returned" /\ entryMode = "train" /\ mode = "train"

---------------------------------------------------------------------------
(* Properties of fit (Spec). *)

Last(q) == q[Len(q)]

Rows(log) == {log[i] : i \in 1..Len(log)}

\* The mid-epoch row of the current training step has just been appended.
MidRowJustAppended ==
    pc = "bar_update" /\ calls # <<>> /\ Last(calls) = "log_append"

\* C3: the metrics of a mid-epoch row are evaluated after the gradient update
\* of the step that triggers it: the step's calls are backward,
\* optimizer_step, zero_grad, scheduler.step, eval_acc, log append in that
\* order, the evaluation saw every optimizer step up to and including this
\* step's, and no optimizer step lies between the evaluation and the append.
C3_EvalAfterUpdate ==
    /\ MidRowJustAppended =>
           calls = <<"backward", "optimizer_step", "zero_grad",
                     "scheduler_step", "eval_acc", "log_append">>
    /\ \A r \in Rows(logTs) :
           /\ r.evalAt = r.appendAt
           /\ r.evalAt = r.epoch * trainLen + r.step + 1

\* A mid-epoch row has just been appended at the 200th step of the 2nd epoch.
C3_Witness ==
    MidRowJustAppended /\ epoch = 1 /\ batchIdx = 2 * Interval - 1 /\ Len(logTs) = 4

\* fit() is over: it returned or an exception ended it.
RunOver == pc \in {"done", "error"}

\* C4: for fit() with max_epochs = 1, a training dataloader of N batches and
\* non-empty validation and evaluation dataloaders, the mid-epoch scheduler
\* steps and the mid-epoch evaluations number floor(N/100) and, on rank 0,
\* floor(N/100) rows are appended to the timestamped log and exactly one row
\* to log.csv.
C4_CountsOneEpoch ==
    (RunOver /\ max_epochs = 1
        /\ valid_dataloader # <<>> /\ eval_dataloader # <<>>) =>
        /\ schedSteps = trainLen \div Interval
        /\ midEvals = trainLen \div Interval
        /\ IsRank0 => /\ Len(logTs) = trainLen \div Interval
                      /\ Len(logCsv) = 1

\* The same counts for the training dataloaders of at least one batch.
CountsOneEpochNonEmptyTrain == trainLen >= 1 => C4_CountsOneEpoch

\* fit() with max_epochs = 1 and exactly 100 batches has completed on rank 0
\* with one scheduler step, one mid-epoch row and one end-of-epoch row.
CountsOneEpochScenario ==
    /\ pc = "done" /\ max_epochs = 1 /\ trainLen = Interval /\ IsRank0
    /\ schedSteps = 1 /\ midEvals = 1 /\ Len(logTs) = 1 /\ Len(logCsv) = 1

\* C5: rows are appended to either log only by the process for which
\* is_rank_0() holds; any other process takes the same training steps,
\* scheduler steps and evaluations and appends nothing.
C5_OnlyRank0Writes ==
    /\ \A r \in Rows(logTs) \cup Rows(logCsv) : r.writer = 0
    /\ ~IsRank0 => logTs = <<>> /\ logCsv = <<>>
    /\ (pc = "done" /\ ~IsRank0) =>
           /\ optSteps = max_epochs * trainLen
           /\ schedSteps = max_epochs * (trainLen \div Interval)
           /\ midEvals = max_epochs * (trainLen \div Interval)
           /\ endEvalReturns = max_epochs

\* A process other than rank 0 has completed a run with mid-epoch and
\* end-of-epoch evaluations.
C5_Witness ==
    /\ pc = "done" /\ ~IsRank0 /\ max_epochs = 2 /\ trainLen = 2 * Interval
    /\ midEvals = 4 /\ endEvalReturns = 2

\* C6: in every epoch, for every N >= 0, once the N training batches are
\* processed eval_acc is run once on eval_dataloader and then, on rank 0,
\* exactly one row is appended to log.csv before the next epoch starts: on
\* rank 0, outside the statements between the return of that eval_acc and
\* the append, log.csv holds one row per returned end-of-epoch evaluation.
C6_SummaryRowEveryEpoch ==
    /\ (IsRank0 /\ pc \notin {"end_ret", "end_log"}) => Len(logCsv) = endEvalReturns
    /\ pc = "epoch_end" => endEvals = epoch + 1 /\ endEvalReturns = epoch + 1

\* C7: the loss column of every row appended by fit() is the loss of the
\* training batch processed last before the append: the batch whose
\* optimizer step was the last one taken.
C7_LossOfLastBatch ==
    \A r \in Rows(logTs) \cup Rows(logCsv) :
        r.loss = LossFn(r.epoch, r.appendAt - r.epoch * trainLen)

\* Both logs hold a row, and the end-of-epoch row carries the loss of the
\* 101st batch, not the 100th batch's loss of the mid-epoch row.
C7_Witness ==
    /\ trainLen = Interval + 1 /\ Len(logTs) = 1 /\ Len(logCsv) = 1
    /\ logTs[1].loss = LossFn(0, Interval)
    /\ logCsv[1].loss = LossFn(0, Interval + 1)

---------------------------------------------------------------------------
(* The result of eval_acc, checked for direct calls (SpecEval). *)

\* eval_acc has computed its result (dist_mean, acc) for evalDl.
EvalResultReady == pc \in {"eval_restore", "returned", "mid_ret", "end_ret"}

\* The examples of a dataloader: <<batch number, number in the batch>>.
Examples(dl) ==
    UNION { { <<b, i>> : i \in 1..Len(dl[b]) } : b \in 1..Len(dl) }

ChosenAt(dl, e) == dl[e[1]][e[2]][1]

RejectedAt(dl, e) == dl[e[1]][e[2]][2]

\* The examples whose chosen reward is strictly above the rejected reward.
Wins(dl) == {e \in Examples(dl) : ChosenAt(dl, e) > RejectedAt(dl, e)}

\* C8: acc is the number of examples whose chosen reward strictly exceeds
\* the rejected reward over the number of all examples: 1 when every example
\* has chosen > rejected, 0 when every example has chosen < rejected, and an
\* example with equal rewards counts in the denominator only.
C8_AccIsStrictWinFraction ==
    EvalResultReady =>
        /\ eAcc[1] * Cardinality(Examples(evalDl))
               = Cardinality(Wins(evalDl)) * eAcc[2]
        /\ (\A e \in Examples(evalDl) : ChosenAt(evalDl, e) > RejectedAt(evalDl, e))
               => eAcc = <<1, 1>>
        /\ (\A e \in Examples(evalDl) : ChosenAt(evalDl, e) < RejectedAt(evalDl, e))
               => eAcc = <<0, 1>>

\* eval_acc has returned for the dataloader of the documented scenario,
\* whose last example is a tie: acc is 3/4.
C8_Witness == pc = "returned" /\ evalDl = ScenarioLoader /\ eAcc = <<3, 4>>

\* Sum over the examples i..Len(batch) of chosen - rejected.
RECURSIVE GapsFrom(_, _)
GapsFrom(batch, i) ==
    IF i > Len(batch) THEN 0
    ELSE batch[i][1] - batch[i][2] + GapsFrom(batch, i + 1)

\* Product of the batch sizes of the batches b..Len(dl).
RECURSIVE SizeProduct(_, _)
SizeProduct(dl, b) ==
    IF b > Len(dl) THEN 1 ELSE Len(dl[b]) * SizeProduct(dl, b + 1)

\* Sum over the batches b..Len(dl) of (mean gap of the batch) * SizeProduct(dl, 1).
RECURSIVE ScaledMeans(_, _)
ScaledMeans(dl, b) ==
    IF b > Len(dl) THEN 0
    ELSE GapsFrom(dl[b], 1) * (SizeProduct(dl, 1) \div Len(dl[b]))
             + ScaledMeans(dl, b + 1)

\* Sum over all examples of chosen - rejected.
RECURSIVE AllGaps(_, _)
AllGaps(dl, b) ==
    IF b > Len(dl) THEN 0 ELSE GapsFrom(dl[b], 1) + AllGaps(dl, b + 1)

\* C9: dist_mean is the sum over the batches of mean(chosen - rejected) of
\* the batch, divided by the number of batches:
\* dist_mean * (number of batches) * P = sum over batches of mean * P,
\* for P the product of the batch sizes.
C9_DistMeanPerBatch ==
    EvalResultReady =>
        eDistMean[1] * Len(evalDl) * SizeProduct(evalDl, 1)
            = ScaledMeans(evalDl, 1) * eDistMean[2]

\* eval_acc has returned for batches of different sizes, where the mean of
\* the batch means differs from the mean over all examples.
C9_Witness ==
    /\ pc = "returned"
    /\ Len(evalDl) = 2
    /\ Len(evalDl[1]) # Len(evalDl[2])
    /\ eDistMean[1] * Cardinality(Examples(evalDl)) # AllGaps(evalDl, 1) * eDistMean[2]

\* The call of eval_acc is over: it returned or failed.
EvalOver == pc \notin {"eval_enter", "eval_loop", "eval_final"}

\* C10: eval_acc called with a dataloader of zero batches fails with a
\* division by zero and never returns a pair.
C10_EmptyLoaderFails ==
    Len(evalDl) = 0 =>
        /\ ~EvalResultReady
        /\ EvalOver => pc = "error" /\ err = "ZeroDivisionError"

\* eval_acc has failed on the empty dataloader.
C10_Witness ==
    pc = "error" /\ err = "ZeroDivisionError" /\ evalDl = <<>> /\ caller = "direct"

---------------------------------------------------------------------------
(* The strategy's calls, the step counter, termination, modes (Spec). *)

\* The first n entries of a sequence (all of it when it is shorter).
Prefix(q, n) == SubSeq(q, 1, IF Len(q) < n THEN Len(q) ELSE n)

\* The calls that change gradients or parameters.
UpdateCalls == {"backward", "optimizer_step", "zero_grad"}

\* eval_acc is running or has just returned to fit.
InEvalAcc == pc \in {"eval_loop", "eval_final", "eval_restore", "mid_ret", "end_ret"}

\* C11 as stated: at every point the number of backward calls equals the
\* number of optimizer_step calls equals the number of training batches
\* fully processed.
C11_CountsEqualAtEveryPoint ==
    /\ backwardCalls = optSteps
    /\ pc = "train_loop" => optSteps = epoch * trainLen + batchIdx

\* C11 amended: every training batch causes one backward, then one
\* optimizer_step, then one zero_grad, in that order, and eval_acc causes
\* none of them; the three counts are equal whenever no step is between its
\* backward and its zero_grad, and at every head of the batch loop they equal
\* the number of training batches fully processed; between the backward and
\* the optimizer_step of a step the backward count is ahead by one, between
\* the optimizer_step and the zero_grad the zero_grad count is behind by one.
C11_OneBackwardOneStepPerBatch ==
    /\ Prefix(calls, 3) = Prefix(<<"backward", "optimizer_step", "zero_grad">>, Len(calls))
           \/ calls[1] = "eval_acc"
    /\ \A i \in 4..Len(calls) : calls[i] \notin UpdateCalls
    /\ pc = "optimizer_step" =>
           backwardCalls = optSteps + 1 /\ optSteps = zeroGrads
    /\ pc = "zero_grad" =>
           backwardCalls = optSteps /\ optSteps = zeroGrads + 1
    /\ pc \notin {"optimizer_step", "zero_grad"} =>
           backwardCalls = optSteps /\ optSteps = zeroGrads
    /\ pc = "train_loop" => optSteps = epoch * trainLen + batchIdx
    /\ pc = "done" => optSteps = max_epochs * trainLen
    /\ InEvalAcc => optSteps = evalAtOpt

\* A mid-epoch eval_acc of the second epoch has returned: 300 batches have
\* had their backward, optimizer_step and zero_grad.
C11_Witness ==
    /\ pc = "mid_ret" /\ epoch = 1 /\ trainLen = 2 * Interval
    /\ backwardCalls = 3 * Interval /\ optSteps = 3 * Interval
    /\ zeroGrads = 3 * Interval

\* C12: the 100-step counter is local to the epoch.  The scheduler is
\* advanced (and validation evaluated) exactly at the steps whose number in
\* the epoch is a positive multiple of 100; the counter is 0 when an epoch
\* starts and eval_acc's own cnt does not touch it; over E epochs of N
\* batches the scheduler is advanced E * floor(N/100) times.
C12_CounterLocalToEpoch ==
    /\ pc = "train_loop" =>
           /\ cnt = batchIdx % Interval
           /\ schedSteps = epoch * (trainLen \div Interval) + batchIdx \div Interval
           /\ midEvals = schedSteps
    /\ pc \in {"scheduler_step", "mid_eval"} =>
           (batchIdx + 1) % Interval = 0 /\ cnt = Interval
    /\ pc = "bar_update" =>
           ((batchIdx + 1) % Interval = 0 <=> cnt = 0)
    /\ (InEvalAcc /\ caller = "mid") => cnt = Interval
    /\ (InEvalAcc /\ caller = "end") => cnt = trainLen % Interval
    /\ pc = "done" => schedSteps = max_epochs * (trainLen \div Interval)

\* Two epochs of 150 batches have completed with two scheduler steps: the 50
\* steps left over in the first epoch did not count in the second.
C12_Witness ==
    /\ pc = "done" /\ max_epochs = 2 /\ trainLen = Interval + Interval \div 2
    /\ schedSteps = 2 /\ optSteps = 3 * Interval

\* The dataloaders are non-empty and finite.
NonEmptyLoaders ==
    trainLen >= 1 /\ valid_dataloader # <<>> /\ eval_dataloader # <<>>

\* C13: with non-empty dataloaders fit() terminates, after exactly
\* max_epochs epochs run one after another, having processed
\* max_epochs * N training batches and run max_epochs end-of-epoch
\* evaluations; with max_epochs = 0 it terminates without any training step,
\* evaluation or log append.
C13_TerminatesAfterMaxEpochs ==
    /\ NonEmptyLoaders => <>(pc = "done")
    /\ max_epochs = 0 => <>(pc = "done")
    /\ [][epoch' = epoch \/ epoch' = epoch + 1]_vars
    /\ [](pc = "done" =>
            /\ epoch = max_epochs
            /\ optSteps = max_epochs * trainLen
            /\ backwardCalls = max_epochs * trainLen
            /\ endEvals = max_epochs
            /\ endEvalReturns = max_epochs
            /\ IsRank0 => Len(logCsv) = max_epochs)
    /\ []((pc = "done" /\ max_epochs = 0) =>
            /\ optSteps = 0 /\ backwardCalls = 0 /\ zeroGrads = 0
            /\ schedSteps = 0 /\ midEvals = 0 /\ endEvals = 0
            /\ logTs = <<>> /\ logCsv = <<>>)

\* fit() has returned after two epochs of 200 batches.
C13_Witness ==
    /\ pc = "done" /\ max_epochs = 2 /\ trainLen = 2 * Interval /\ NonEmptyLoaders
    /\ optSteps = 4 * Interval /\ endEvalReturns = 2

\* C14: every training forward pass and gradient update happens in training
\* mode and every forward pass inside eval_acc in evaluation mode, also for
\* the training batches that follow a mid-epoch eval_acc.
C14_ModesDuringFit ==
    /\ (pc = "train_loop" /\ batchIdx < trainLen) => mode = "train"
    /\ pc \in {"backward", "optimizer_step", "zero_grad"} => mode = "train"
    /\ pc \in {"eval_loop", "eval_final"} => mode = "eval"

\* The training batch after the first mid-epoch eval_acc has had its forward
\* pass, and the model is in training mode.
C14_Witness ==
    /\ pc = "backward" /\ batchIdx = Interval /\ midEvals = 1 /\ epoch = 0
    /\ mode = "train"

\* The batches of its epoch whose gradient update was complete when row r
\* was appended.
BatchesDoneAt(r) == r.appendAt - r.epoch * trainLen

\* C15: on rank 0 the step column of a mid-epoch row is the progress counter
\* before it is advanced for the current batch, the number of batches
\* completed in the epoch minus one (99 at the 100th step, 199 at the
\* 200th); the step column of an end-of-epoch row is N.
C15_StepColumn ==
    /\ \A i \in 1..Len(logTs) :
           /\ logTs[i].step = BatchesDoneAt(logTs[i]) - 1
           /\ BatchesDoneAt(logTs[i]) % Interval = 0
           /\ BatchesDoneAt(logTs[i]) >= Interval
    /\ \A i \in 1..Len(logCsv) :
           /\ logCsv[i].step = trainLen
           /\ BatchesDoneAt(logCsv[i]) = trainLen
    /\ (pc = "mid_log" /\ IsRank0) => stepBarN = batchIdx

\* Rank 0 has appended the rows of the 100th and the 200th step (steps 99
\* and 199) and the end-of-epoch row (step 200) of an epoch of 200 batches.
C15_Witness ==
    /\ IsRank0 /\ trainLen = 2 * Interval /\ Len(logTs) = 2 /\ Len(logCsv) = 1
    /\ logTs[1].step = Interval - 1
    /\ logTs[2].step = 2 * Interval - 1
    /\ logCsv[1].step = 2 * Interval

\* eval_acc has failed with a division by zero.
EvalFailed == pc = "error" /\ err = "ZeroDivisionError"

\* C16: when eval_acc fails with a division by zero the restore is skipped
\* and the model is left in evaluation mode; when it fails inside fit() at a
\* 100th step, the run has aborted after the scheduler was advanced for that
\* step and before any row for that step was appended.
C16_FailureLeavesEvalMode ==
    EvalFailed =>
        /\ mode = "eval"
        /\ evalDl = <<>>
        /\ ~ENABLED Next
        /\ caller = "mid" =>
               /\ calls = <<"backward", "optimizer_step", "zero_grad",
                            "scheduler_step", "eval_acc">>
               /\ schedSteps = optSteps \div Interval
               /\ optSteps % Interval = 0
               /\ Len(logTs) = schedSteps - 1
               /\ \A r \in Rows(logTs) : r.appendAt < optSteps

\* fit() has aborted on rank 0 at the 100th step of the first epoch: the
\* scheduler has been advanced once and the timestamped log is empty.
C16_Witness ==
    /\ EvalFailed /\ caller = "mid" /\ IsRank0 /\ valid_dataloader = <<>>
    /\ optSteps = Interval /\ schedSteps = 1 /\ logTs = <<>> /\ mode = "eval"

=============================================================================
